---------------------------- MODULE Spec2Model ----------------------------
(***************************************************************************)
(* A model of plot_loss.py: the per-run parse and binning step             *)
(* (parse_filepath), the scan and concatenation (collate_results), the     *)
(* plot renderer (plot) and the command-line script (__main__).            *)
(*                                                                         *)
(* Numbers.  A table cell is a rational [num, den] in lowest terms; it     *)
(* stands for the float64 pandas holds.  An integer v is v/1, and NaN (the *)
(* filler pd.concat uses for a column a run does not have) is 0/0.         *)
(*                                                                         *)
(* Files.  A results directory holds run entries (directories with an      *)
(* optional loss.csv and an optional params.json) and, once written, the   *)
(* regular file combined.csv.  Opening a path below a regular file fails   *)
(* with NotADirectoryError (ENOTDIR), as on the POSIX systems the script   *)
(* is run on.                                                              *)
(*                                                                         *)
(* Libraries.  pd.read_csv gives a header-only file columns of dtype       *)
(* object, and np.einsum takes object arrays only from NumPy 1.25 on       *)
(* (TypeError before).  Which NumPy is installed is a fact of the          *)
(* installation: the model starts with either.                             *)
(***************************************************************************)
EXTENDS Integers, Sequences, FiniteSets, TLC

VARIABLES
    einsumObjects, \* whether the installed np.einsum accepts object arrays
    runs,       \* results directory: run name -> directory entry
    combined,   \* <results-dir>/combined.csv
    dirs,       \* directories that exist below the working directory
    pc,         \* position of the script (or of the harness of one call)
    args,       \* the parsed command line / the arguments of the call
    df,         \* the table in hand (main's df, or a call's return value)
    error,      \* the exception that ended the invocation ("" for none)
    raisedIn,   \* the step that raised it
    saved,      \* the image path written by this invocation
    shown,      \* whether plt.show() ran in this invocation
    render      \* the arguments sns.relplot was called with

vars == <<einsumObjects, runs, combined, dirs, pc, args, df, error, raisedIn, saved, shown, render>>

-----------------------------------------------------------------------------
(* Bounds of the model *)

MaxRows == 5      \* rows of a loss.csv in the parse harness
MaxVal == 1       \* loss values are 0..MaxVal
MaxBin == 3       \* bin sizes are 1..MaxBin
MaxMeta == 2      \* metadata values are 1..MaxMeta
PipeRows == 2     \* rows of a loss.csv in the script's scenarios
PipeBin == 2      \* bin sizes in the script's scenarios are 1..PipeBin
MaxEnvs == 3      \* distinct env values of a table handed to plot
MaxSeeds == 2     \* distinct seeds of a table handed to plot

-----------------------------------------------------------------------------
(* Helpers: sequences and rationals *)

RECURSIVE GCD(_, _)
GCD(a, b) == IF b = 0 THEN a ELSE GCD(b, a % b)

\* The value n/d (d > 0, n >= 0) as numpy's true division yields it.
Frac(n, d) == LET g == GCD(n, d) IN [num |-> n \div g, den |-> d \div g]

IntCell(v) == [num |-> v, den |-> 1]
NaN == [num |-> 0, den |-> 0]

RECURSIVE SumSeq(_)
SumSeq(s) == IF s = <<>> THEN 0 ELSE Head(s) + SumSeq(Tail(s))

Range(s) == {s[i] : i \in DOMAIN s}

IndexOf(s, x) == CHOOSE i \in DOMAIN s : s[i] = x

RECURSIVE Flatten(_)
Flatten(ss) == IF ss = <<>> THEN <<>> ELSE Head(ss) \o Flatten(Tail(ss))

\* s without the elements of the set drop, order kept.
RECURSIVE Without(_, _)
Without(s, drop) ==
    IF s = <<>> THEN <<>>
    ELSE IF Head(s) \in drop THEN Without(Tail(s), drop)
    ELSE <<Head(s)>> \o Without(Tail(s), drop)

-----------------------------------------------------------------------------
(* Data frames *)

DataFrame(values, index, cols) ==
    [isNone |-> FALSE, cols |-> cols, index |-> index, values |-> values]

NoneDF == [isNone |-> TRUE, cols |-> <<>>, index |-> <<>>, values |-> <<>>]

RangeIndex(n) == [i \in 1..n |-> i - 1]

\* The value of column c in (1-based) row i of frame f.
At(f, i, c) == f.values[i][IndexOf(f.cols, c)]

Ret(v) == [exc |-> "", val |-> v]
Raise(e) == [exc |-> e, val |-> NoneDF]

-----------------------------------------------------------------------------
(* Files of a run directory *)

AbsentLoss == [st |-> "absent", cols |-> <<>>, rows |-> <<>>]
MalformedLoss == [st |-> "malformed", cols |-> <<>>, rows |-> <<>>]
OkLoss(cols, rows) == [st |-> "ok", cols |-> cols, rows |-> rows]

AbsentParams == [st |-> "absent", items |-> <<>>]
MalformedParams == [st |-> "malformed", items |-> <<>>]
OkParams(items) == [st |-> "ok", items |-> items]

RunDir(loss, params) == [kind |-> "dir", loss |-> loss, params |-> params]
NoEntry == [kind |-> "none", loss |-> AbsentLoss, params |-> AbsentParams]
RegularFile == [kind |-> "file", loss |-> AbsentLoss, params |-> AbsentParams]

\* pd.read_csv(f"{fp}/loss.csv"): the exception it raises, "" when it reads.
read_csv_loss_exc(fp) ==
    IF fp.kind = "file" THEN "NotADirectoryError"
    ELSE IF fp.kind = "none" \/ fp.loss.st = "absent" THEN "FileNotFoundError"
    ELSE IF fp.loss.st = "malformed" THEN "ParserError"
    ELSE ""

\* pd.read_csv(f"{fp}/loss.csv"): the frame of a readable log.
read_csv_loss(fp) ==
    DataFrame([i \in DOMAIN fp.loss.rows |->
                  [k \in DOMAIN fp.loss.rows[i] |-> IntCell(fp.loss.rows[i][k])]],
              RangeIndex(Len(fp.loss.rows)),
              fp.loss.cols)

\* open(f"{fp}/params.json") and json.load: the exception, "" for none.
json_load_exc(fp) ==
    IF fp.params.st = "absent" THEN "FileNotFoundError"
    ELSE IF fp.params.st = "malformed" THEN "JSONDecodeError"
    ELSE ""

-----------------------------------------------------------------------------
(* parse_filepath *)

ignore_trailing_n(len, bin_size) == len - (len \div bin_size) * bin_size

max_idx(len, bin_size) == len - ignore_trailing_n(len, bin_size)

\* A variant of reshape: a window slides by one row instead of by bin_size rows.
reshape_sliding(values, bin_size) ==
    [i \in 1..(Len(values) \div bin_size) |->
        [j \in 1..bin_size |-> values[(i - 1) + j]]]

\* values[:max_idx].reshape(-1, bin_size, ncols): groups of bin_size rows.
reshape(values, bin_size) ==
    [i \in 1..(Len(values) \div bin_size) |->
        [j \in 1..bin_size |-> values[(i - 1) * bin_size + j]]]

\* np.einsum('ijk->ik', a): the sum over the middle axis.
einsum_ijk_ik(a, ncols) ==
    [i \in DOMAIN a |->
        [k \in 1..ncols |-> SumSeq([j \in DOMAIN a[i] |-> a[i][j][k].num])]]

\* lines 19-26: the binned frame of a log.
binned(loss, bin_size) ==
    LET m == max_idx(Len(loss.values), bin_size)
        ncols == Len(loss.cols)
        sums == einsum_ijk_ik(reshape(SubSeq(loss.values, 1, m), bin_size), ncols)
    IN DataFrame([i \in DOMAIN sums |-> [k \in 1..ncols |-> Frac(sums[i][k], bin_size)]],
                 RangeIndex(Len(sums)),
                 loss.cols)

\* A variant of setitem: a column the frame already has is left as it is.
setitem_keep(f, k, v) ==
    IF k \in {f.cols[i] : i \in DOMAIN f.cols} THEN f
    ELSE [f EXCEPT !.cols = Append(f.cols, k),
                   !.values = [i \in DOMAIN f.values |-> Append(f.values[i], IntCell(v))]]

\* loss[k] = v: sets column k to the scalar v, appending it when it is new.
setitem(f, k, v) ==
    IF k \in Range(f.cols)
    THEN [f EXCEPT !.values =
            [i \in DOMAIN f.values |->
                [f.values[i] EXCEPT ![IndexOf(f.cols, k)] = IntCell(v)]]]
    ELSE [f EXCEPT !.cols = Append(f.cols, k),
                   !.values = [i \in DOMAIN f.values |-> Append(f.values[i], IntCell(v))]]

\* for k, v in params.items(): loss[k] = v
RECURSIVE assign_params(_, _)
assign_params(f, items) ==
    IF items = <<>> THEN f
    ELSE assign_params(setitem(f, Head(items).k, Head(items).v), Tail(items))

\* np.einsum on the values of the log: a log of no rows is an object array.
einsum_exc(loss) ==
    IF loss.values = <<>> /\ ~einsumObjects THEN "TypeError" ELSE ""

\* The body of the try block, lines 18-31.
parse_try(fp, bin_size) ==
    IF read_csv_loss_exc(fp) # "" THEN Raise(read_csv_loss_exc(fp))
    ELSE IF einsum_exc(read_csv_loss(fp)) # "" THEN Raise(einsum_exc(read_csv_loss(fp)))
    ELSE IF json_load_exc(fp) # "" THEN Raise(json_load_exc(fp))
    ELSE Ret(assign_params(binned(read_csv_loss(fp), bin_size), fp.params.items))

\* except FileNotFoundError: return None; anything else propagates.
parse_filepath(fp, bin_size) ==
    LET r == parse_try(fp, bin_size)
    IN IF r.exc = "FileNotFoundError" THEN Ret(NoneDF) ELSE r

-----------------------------------------------------------------------------
(* collate_results *)

\* The columns of the frames in dfs, in order of first appearance.
RECURSIVE union_cols(_)
union_cols(dfs) ==
    IF dfs = <<>> THEN <<>>
    ELSE Head(dfs).cols \o Without(union_cols(Tail(dfs)), Range(Head(dfs).cols))

\* The rows of f laid out on the columns cols, NaN where f has no such column.
reindex(f, cols) ==
    [i \in DOMAIN f.values |->
        [k \in DOMAIN cols |->
            IF cols[k] \in Range(f.cols) THEN At(f, i, cols[k]) ELSE NaN]]

\* pd.concat(dfs, axis=0): rows appended, columns united, each frame's index kept.
concat(dfs) ==
    IF dfs = <<>> THEN Raise("ValueError")
    ELSE LET cols == union_cols(dfs)
         IN Ret(DataFrame(Flatten([d \in DOMAIN dfs |-> reindex(dfs[d], cols)]),
                          Flatten([d \in DOMAIN dfs |-> dfs[d].index]),
                          cols))

\* The loop of lines 39-44 over the entries glob returned: the frames appended to
\* dfs, or the exception parse_filepath let through.
RECURSIVE scan(_, _, _)
scan(listing, bin_size, dfs) ==
    IF listing = <<>> THEN [exc |-> "", dfs |-> dfs]
    ELSE LET run_df == parse_filepath(Head(listing), bin_size)
         IN IF run_df.exc # "" THEN [exc |-> run_df.exc, dfs |-> dfs]
            ELSE IF run_df.val.isNone THEN scan(Tail(listing), bin_size, dfs)
            ELSE scan(Tail(listing), bin_size, Append(dfs, run_df.val))

\* collate_results, given what glob.glob(results_dir + '/*') returned.
collate_results(listing, bin_size) ==
    LET s == scan(listing, bin_size, <<>>)
    IN IF s.exc # "" THEN Raise(s.exc) ELSE concat(s.dfs)

\* glob.glob(results_dir + '/*'): every entry of the directory, combined.csv
\* included, in an order the file system chooses.
glob(rs, comb) ==
    LET names == {n \in DOMAIN rs : rs[n].kind # "none"}
        slots == Cardinality(names) + (IF comb.exists THEN 1 ELSE 0)
        stray == IF comb.exists THEN {"combined.csv"} ELSE {}
        entry(n) == IF n = "combined.csv" THEN RegularFile ELSE rs[n]
    IN {[i \in 1..slots |-> entry(o[i])] :
            o \in {q \in [1..slots -> names \cup stray] :
                      \A i, j \in 1..slots : i # j => q[i] # q[j]}}

-----------------------------------------------------------------------------
(* combined.csv *)

NoFile == [exists |-> FALSE, header |-> <<>>, rows |-> <<>>]

\* df.to_csv(path): the header and the rows, the index written as a first,
\* unnamed column.
to_csv(f) ==
    [exists |-> TRUE,
     header |-> <<"">> \o f.cols,
     rows |-> [i \in DOMAIN f.values |-> <<IntCell(f.index[i])>> \o f.values[i]]]

\* pd.read_csv(path): the unnamed column comes back as "Unnamed: 0"; a fresh
\* RangeIndex.
read_csv(file) ==
    IF ~file.exists THEN Raise("FileNotFoundError")
    ELSE Ret(DataFrame(file.rows,
                       RangeIndex(Len(file.rows)),
                       [k \in DOMAIN file.header |->
                           IF file.header[k] = "" THEN "Unnamed: 0" ELSE file.header[k]]))

\* Python's None for an optional string argument.
PyNone == "<None>"

\* df.query(f"env == {q}"): the rows whose env is q, their index labels kept.
query(f, q) ==
    IF "env" \notin Range(f.cols) THEN Raise("UndefinedVariableError")
    ELSE LET keep == {i \in DOMAIN f.values : At(f, i, "env") = IntCell(q)}
             pick(s) == Without([i \in DOMAIN s |-> <<i, s[i]>>],
                                {<<i, s[i]>> : i \in DOMAIN s \ keep})
         IN Ret(DataFrame([i \in DOMAIN pick(f.values) |-> pick(f.values)[i][2]],
                          [i \in DOMAIN pick(f.index) |-> pick(f.index)[i][2]],
                          f.cols))

-----------------------------------------------------------------------------
(* plot *)

SeedStr(s) == [isList |-> FALSE, str |-> s, list |-> <<>>]
SeedList(l) == [isList |-> TRUE, str |-> "", list |-> l]

NonePath == [isNone |-> TRUE, parts |-> <<>>]
Path(parts) == [isNone |-> FALSE, parts |-> parts]

\* os.path.split(path)[0]
split_head(path) == SubSeq(path.parts, 1, Len(path.parts) - 1)

NoRender ==
    [called |-> FALSE, data |-> NoneDF, hue |-> PyNone, style |-> PyNone,
     units |-> PyNone, estimator |-> PyNone, height |-> 0, col_wrap |-> 0,
     xlabel |-> 0]

\* len(data['env'].unique()): NaN counts as a value.
n_envs(data) == Cardinality({At(data, i, "env") : i \in DOMAIN data.values})

\* line 52
height_of(E) == IF E > 2 THEN 3 ELSE 5

\* A variant of col_wrap_of: the wrap widens only past two environments.
col_wrap_of_late(E) == IF E > 2 THEN 2 ELSE 1

\* line 53
col_wrap_of(E) == IF E > 1 THEN 2 ELSE 1

\* A variant of seed_branch: an unrecognized seed is rendered as 'average'.
seed_branch_lenient(seed) ==
    IF ~seed.isList /\ seed.str = "all" THEN "all" ELSE "average"

\* The branch the seed argument selects, lines 55, 69 and 84.
seed_branch(seed) ==
    IF seed.isList \/ seed.str = "average" THEN "average"
    ELSE IF seed.str = "all" THEN "all"
    ELSE "raise"

\* A variant of relplot_data: a seed list selects the rows of the listed seeds.
relplot_data_listed(data, seed) ==
    IF seed.isList /\ "seed" \in Range(data.cols)
    THEN LET keep == SelectSeq(data.values,
                               LAMBDA row : \E x \in Range(seed.list) :
                                   row[IndexOf(data.cols, "seed")] = IntCell(x))
         IN DataFrame(keep, RangeIndex(Len(keep)), data.cols)
    ELSE data

\* data=data in both relplot calls: the table is handed over as it came.
relplot_data(data, seed) == data

\* sns.relplot(x='step', y='loss', data=..., col='env', ...): the grid, or the
\* ValueError for a variable that names no column.  What it does with a table
\* of no rows is the library's affair: either outcome is allowed.
relplot(data, hue, style, units, estimator, height, col_wrap) ==
    LET named == {"step", "loss", "env"} \cup ({hue, style, units} \ {PyNone})
        g == [called |-> TRUE, data |-> data, hue |-> hue, style |-> style,
              units |-> units, estimator |-> estimator, height |-> height,
              col_wrap |-> col_wrap, xlabel |-> 0]
    IN IF ~(named \subseteq Range(data.cols)) THEN {[exc |-> "ValueError", g |-> NoRender]}
       ELSE IF data.values = <<>>
            THEN {[exc |-> "ValueError", g |-> NoRender], [exc |-> "", g |-> g]}
       ELSE {[exc |-> "", g |-> g]}

\* g.savefig(savepath): the file is created in a directory that exists.
savefig_exc(savepath) ==
    IF split_head(savepath) = <<>> \/ split_head(savepath) \in dirs THEN ""
    ELSE "FileNotFoundError"

PlotRaise(e) == [exc |-> e, render |-> NoRender, saved |-> NonePath, shown |-> FALSE]

\* lines 87-95, after relplot returned r.
plot_finish(r, bin_size, savepath, show) ==
    IF r.exc # "" THEN PlotRaise(r.exc)
    ELSE IF ~savepath.isNone /\ savefig_exc(savepath) # ""
         THEN [PlotRaise(savefig_exc(savepath)) EXCEPT !.render = [r.g EXCEPT !.xlabel = bin_size]]
    ELSE [exc |-> "", render |-> [r.g EXCEPT !.xlabel = bin_size],
          saved |-> savepath, shown |-> show]

\* plot: the outcomes of one call.
plot(data, hue, style, seed, bin_size, savepath, show) ==
    IF "env" \notin Range(data.cols) THEN {PlotRaise("KeyError")}
    ELSE LET height == height_of(n_envs(data))
             col_wrap == col_wrap_of(n_envs(data))
         IN IF seed_branch(seed) = "average"
            THEN {plot_finish(r, bin_size, savepath, show) :
                     r \in relplot(relplot_data(data, seed), hue, style, PyNone, "mean",
                                   height, col_wrap)}
            ELSE IF seed_branch(seed) = "all"
            THEN {plot_finish(r, bin_size, savepath, show) :
                     r \in relplot(relplot_data(data, seed), hue, style, "seed", PyNone,
                                   height, col_wrap)}
            ELSE {PlotRaise("ValueError")}

-----------------------------------------------------------------------------
(* The command line *)

NoQuery == [isNone |-> TRUE, env |-> 0]
EnvQuery(e) == [isNone |-> FALSE, env |-> e]

Args(create_csv, bin_size, q, hue, style, seed, no_plot, no_show, save_path) ==
    [create_csv |-> create_csv, bin_size |-> bin_size, query |-> q, hue |-> hue,
     style |-> style, seed |-> seed, no_plot |-> no_plot, no_show |-> no_show,
     save_path |-> save_path]

\* parse_args' defaults, lines 104-117 (all but --results-dir).
DefaultBin == 100
NoArgs == Args(FALSE, DefaultBin, NoQuery, PyNone, PyNone, SeedStr("average"), FALSE, FALSE, NonePath)

BarePath == Path(<<"plot.png">>)
FigsPath == Path(<<"figs", "plot.png">>)

\* os.makedirs(head, exist_ok=True): "" names no directory; otherwise head and
\* its ancestors exist afterwards.
makedirs_exc(head) == IF head = <<>> THEN "FileNotFoundError" ELSE ""

makedirs(head) == dirs \cup {SubSeq(head, 1, n) : n \in 1..Len(head)}

-----------------------------------------------------------------------------
(* Inputs *)

LossCols == <<"step", "loss">>

\* The logs of up to maxRows rows: step counts the rows, loss is any value.
LossFiles(maxRows) ==
    UNION {{OkLoss(LossCols, [i \in 1..n |-> <<i - 1, v[i]>>]) : v \in [1..n -> 0..MaxVal]} :
              n \in 0..maxRows}

Item(k, v) == [k |-> k, v |-> v]

\* Flat metadata maps; "loss" is a key that is also a column of the log.
ParamsFiles ==
    {OkParams(<<>>)}
    \cup {OkParams(<<Item("env", e)>>) : e \in 1..MaxMeta}
    \cup {OkParams(<<Item("env", e), Item("seed", x)>>) : e \in 1..MaxMeta, x \in 1..MaxMeta}
    \cup {OkParams(<<Item("env", e), Item("loss", x)>>) : e \in 1..MaxMeta, x \in 1..MaxMeta}

\* The log of n rows used in the script's scenarios.
PipeLoss(n) == OkLoss(LossCols, [i \in 1..n |-> <<i - 1, i % (MaxVal + 1)>>])

\* Odd-length runs log a learning rate, the others a seed.
PipeParams(n) ==
    IF n % 2 = 0 THEN OkParams(<<Item("env", 1), Item("seed", 1)>>)
    ELSE OkParams(<<Item("env", 2), Item("lr", 1)>>)

\* What a slot of the results directory may hold.
PipeEntries ==
    {NoEntry,
     RunDir(AbsentLoss, PipeParams(0)),
     RunDir(PipeLoss(PipeRows), AbsentParams),
     RunDir(MalformedLoss, PipeParams(0)),
     RunDir(PipeLoss(PipeRows), MalformedParams)}
    \cup {RunDir(PipeLoss(n), PipeParams(n)) : n \in 0..PipeRows}

RunNames == {"a", "b"}

Bins == 1..MaxBin

PipeBins == 1..PipeBin

\* Command lines: with --no-plot the plotting options keep their defaults.
CommandLines ==
    {Args(c, b, NoQuery, PyNone, PyNone, SeedStr("average"), TRUE, FALSE, NonePath) :
        c \in BOOLEAN, b \in PipeBins}
    \cup {Args(c, b, q, PyNone, PyNone, SeedStr(sd), FALSE, ns, sp) :
            c \in BOOLEAN, b \in PipeBins, q \in {NoQuery, EnvQuery(1)},
            sd \in {"average", "all", "median"}, ns \in BOOLEAN,
            sp \in {NonePath, BarePath, FigsPath}}

\* Tables handed to plot: one row per env and seed, or a table with no env column.
PlotTable(E, S) ==
    DataFrame(Flatten([e \in 1..E |-> [x \in 1..S |->
                  <<IntCell(0), IntCell((e + x) % 2), IntCell(e), IntCell(x)>>]]),
              RangeIndex(E * S),
              <<"step", "loss", "env", "seed">>)

PlotTables ==
    {PlotTable(E, S) : E \in 0..MaxEnvs, S \in 1..MaxSeeds}
    \cup {DataFrame(<<<<IntCell(0), IntCell(1)>>>>, RangeIndex(1), LossCols)}

SeedArgs ==
    {SeedStr("average"), SeedStr("all"), SeedStr("median"),
     SeedList(<<>>), SeedList(<<1>>), SeedList(<<1, 2>>)}

PlotCalls ==
    {Args(FALSE, b, NoQuery, h, st, sd, FALSE, ns, sp) :
        b \in Bins, h \in {PyNone, "env", "lr"}, st \in {PyNone, "seed"},
        sd \in SeedArgs, ns \in BOOLEAN, sp \in {NonePath, BarePath, FigsPath}}

-----------------------------------------------------------------------------
(* The script, lines 123-140 *)

Fresh ==
    /\ args = NoArgs
    /\ df = NoneDF
    /\ error = ""
    /\ raisedIn = ""
    /\ saved = NonePath
    /\ shown = FALSE
    /\ render = NoRender

Init ==
    /\ einsumObjects \in BOOLEAN
    /\ runs \in [RunNames -> PipeEntries]
    /\ combined = NoFile
    /\ dirs = {}
    /\ pc = "start"
    /\ Fresh

\* line 124: args = parse_args()
Start ==
    /\ pc = "start"
    /\ \E a \in CommandLines : args' = a
    /\ pc' = "create_csv"
    /\ UNCHANGED <<einsumObjects, runs, combined, dirs, df, error, raisedIn, saved, shown, render>>

\* A variant of CreateCsv: combined.csv is opened for writing before the scan,
\* so a scan that raises leaves it empty.
CreateCsv_truncating ==
    /\ pc = "create_csv"
    /\ IF ~args.create_csv
       THEN /\ pc' = "makedirs"
            /\ UNCHANGED <<combined, df, error, raisedIn>>
       ELSE \E listing \in glob(runs, combined) :
              LET r == collate_results(listing, args.bin_size)
              IN IF r.exc # ""
                 THEN /\ pc' = "raised"
                      /\ error' = r.exc
                      /\ raisedIn' = "collate"
                      /\ combined' = [exists |-> TRUE, header |-> <<>>, rows |-> <<>>]
                      /\ UNCHANGED df
                 ELSE /\ df' = r.val
                      /\ combined' = to_csv(r.val)
                      /\ pc' = "makedirs"
                      /\ UNCHANGED <<error, raisedIn>>
    /\ UNCHANGED <<einsumObjects, runs, dirs, args, saved, shown, render>>

\* lines 126-130: collate the runs and write combined.csv.
CreateCsv ==
    /\ pc = "create_csv"
    /\ IF ~args.create_csv
       THEN /\ pc' = "makedirs"
            /\ UNCHANGED <<combined, df, error, raisedIn>>
       ELSE \E listing \in glob(runs, combined) :
              LET r == collate_results(listing, args.bin_size)
              IN IF r.exc # ""
                 THEN /\ pc' = "raised"
                      /\ error' = r.exc
                      /\ raisedIn' = "collate"
                      /\ UNCHANGED <<combined, df>>
                 ELSE /\ df' = r.val
                      /\ combined' = to_csv(r.val)
                      /\ pc' = "makedirs"
                      /\ UNCHANGED <<error, raisedIn>>
    /\ UNCHANGED <<einsumObjects, runs, dirs, args, saved, shown, render>>

\* lines 132-134: the parent directories of the save path.
MakeDirs ==
    /\ pc = "makedirs"
    /\ IF args.no_plot
       THEN /\ pc' = "done"
            /\ UNCHANGED <<dirs, error, raisedIn>>
       ELSE IF args.save_path.isNone
       THEN /\ pc' = "load"
            /\ UNCHANGED <<dirs, error, raisedIn>>
       ELSE IF makedirs_exc(split_head(args.save_path)) # ""
       THEN /\ pc' = "raised"
            /\ error' = makedirs_exc(split_head(args.save_path))
            /\ raisedIn' = "makedirs"
            /\ UNCHANGED dirs
       ELSE /\ dirs' = makedirs(split_head(args.save_path))
            /\ pc' = "load"
            /\ UNCHANGED <<error, raisedIn>>
    /\ UNCHANGED <<einsumObjects, runs, combined, args, df, saved, shown, render>>

\* lines 137-139: the optional row filter.
filtered(f, q) == IF q.isNone THEN Ret(f) ELSE query(f, q.env)

\* lines 135-140: read combined.csv back, filter, plot.
LoadAndPlot ==
    /\ pc = "load"
    /\ LET r == read_csv(combined)
           q == filtered(r.val, args.query)
       IN IF r.exc # ""
          THEN /\ pc' = "raised" /\ error' = r.exc /\ raisedIn' = "read_csv"
               /\ UNCHANGED <<df, saved, shown, render>>
          ELSE IF q.exc # ""
          THEN /\ pc' = "raised" /\ error' = q.exc /\ raisedIn' = "query"
               /\ df' = r.val
               /\ UNCHANGED <<saved, shown, render>>
          ELSE \E o \in plot(q.val, args.hue, args.style, args.seed, args.bin_size,
                             args.save_path, ~args.no_show) :
                 /\ df' = q.val
                 /\ render' = o.render
                 /\ saved' = o.saved
                 /\ shown' = o.shown
                 /\ error' = o.exc
                 /\ raisedIn' = (IF o.exc # "" THEN "plot" ELSE "")
                 /\ pc' = (IF o.exc # "" THEN "raised" ELSE "done")
    /\ UNCHANGED <<einsumObjects, runs, combined, dirs, args>>

\* The process ends; the next invocation starts afresh on the same files.
Exit ==
    /\ pc \in {"done", "raised"}
    /\ pc' = "start"
    /\ args' = NoArgs
    /\ df' = NoneDF
    /\ error' = ""
    /\ raisedIn' = ""
    /\ saved' = NonePath
    /\ shown' = FALSE
    /\ render' = NoRender
    /\ UNCHANGED <<einsumObjects, runs, combined, dirs>>

Next == Start \/ CreateCsv \/ MakeDirs \/ LoadAndPlot \/ Exit

Spec == Init /\ [][Next]_vars

-----------------------------------------------------------------------------
(* One call of parse_filepath on a run directory *)

InitParse ==
    /\ einsumObjects \in BOOLEAN
    /\ runs \in [{"a"} -> {RunDir(l, p) :
                    l \in LossFiles(MaxRows) \cup {AbsentLoss, MalformedLoss},
                    p \in ParamsFiles \cup {AbsentParams, MalformedParams}}]
    /\ combined = NoFile
    /\ dirs = {}
    /\ pc = "call_parse"
    /\ args \in {[NoArgs EXCEPT !.bin_size = b] : b \in Bins}
    /\ df = NoneDF
    /\ error = ""
    /\ raisedIn = ""
    /\ saved = NonePath
    /\ shown = FALSE
    /\ render = NoRender

ParseCall ==
    /\ pc = "call_parse"
    /\ LET r == parse_filepath(runs["a"], args.bin_size)
       IN /\ df' = r.val
          /\ error' = r.exc
          /\ raisedIn' = (IF r.exc # "" THEN "parse_filepath" ELSE "")
    /\ pc' = "returned"
    /\ UNCHANGED <<einsumObjects, runs, combined, dirs, args, saved, shown, render>>

NextParse == ParseCall

SpecParse == InitParse /\ [][NextParse]_vars

-----------------------------------------------------------------------------
(* One call of plot *)

InitPlot ==
    /\ einsumObjects \in BOOLEAN
    /\ runs = [n \in RunNames |-> NoEntry]
    /\ combined = NoFile
    /\ dirs \in {{}, {<<"figs">>}}
    /\ pc = "call_plot"
    /\ args \in PlotCalls
    /\ df \in PlotTables
    /\ error = ""
    /\ raisedIn = ""
    /\ saved = NonePath
    /\ shown = FALSE
    /\ render = NoRender

PlotCall ==
    /\ pc = "call_plot"
    /\ \E o \in plot(df, args.hue, args.style, args.seed, args.bin_size,
                     args.save_path, ~args.no_show) :
          /\ render' = o.render
          /\ saved' = o.saved
          /\ shown' = o.shown
          /\ error' = o.exc
          /\ raisedIn' = (IF o.exc # "" THEN "plot" ELSE "")
    /\ pc' = "returned"
    /\ UNCHANGED <<einsumObjects, runs, combined, dirs, args, df>>

NextPlot == PlotCall

SpecPlot == InitPlot /\ [][NextPlot]_vars

-----------------------------------------------------------------------------
(* Properties of parse_filepath, under SpecParse *)

\* The call returned a table.
ParsedOk == pc = "returned" /\ error = "" /\ ~df.isNone

LogRows == runs["a"].loss.rows

MetaKeys == {runs["a"].params.items[n].k : n \in DOMAIN runs["a"].params.items}

\* The sum of column c over input rows i*B .. i*B+B-1 (rows counted from 0).
WindowSum(c, i, B) ==
    SumSeq([j \in 1..B |-> LogRows[i * B + j][IndexOf(runs["a"].loss.cols, c)]])

\* cell is the arithmetic mean of that window.
IsWindowMean(cell, c, i, B) ==
    cell.den > 0 /\ cell.num * B = WindowSum(c, i, B) * cell.den

\* floor(N/B) rows, and the columns in cs hold the window means.
BinnedOn(cs) ==
    LET B == args.bin_size
        N == Len(LogRows)
    IN /\ Len(df.values) = N \div B
       /\ \A i \in 0..((N \div B) - 1) : \A c \in cs :
             /\ c \in Range(df.cols)
             /\ IsWindowMean(At(df, i + 1, c), c, i, B)

C7_MetadataConstant ==
    ParsedOk =>
        \A n \in DOMAIN runs["a"].params.items :
            LET it == runs["a"].params.items[n]
            IN /\ it.k \in Range(df.cols)
               /\ \A i \in DOMAIN df.values : At(df, i, it.k) = IntCell(it.v)

\* A table of two rows whose metadata has the key "loss", a column of the log.
C7_Witness ==
    /\ ParsedOk
    /\ Len(df.values) >= 2
    /\ "loss" \in MetaKeys
    /\ "env" \in MetaKeys
    /\ \E i \in DOMAIN LogRows : LogRows[i][2] = 1

-----------------------------------------------------------------------------
(* Properties of plot, under SpecPlot *)

\* The number of distinct values in the env column of the table handed to plot.
EnvCount == Cardinality({At(df, i, "env") : i \in DOMAIN df.values})

\* C4: a seed argument that is neither 'average', nor 'all', nor a list makes
\* plot raise, with no image written and nothing displayed.
C4_BadSeedRaises ==
    (pc = "returned" /\ ~args.seed.isList /\ args.seed.str \notin {"average", "all"})
        => (error # "" /\ saved = NonePath /\ ~shown)

\* plot was asked to save and to show a plottable table, with seed 'median'.
C4_Witness ==
    /\ pc = "returned"
    /\ args.seed = SeedStr("median")
    /\ args.save_path = BarePath
    /\ ~args.no_show
    /\ df = PlotTable(2, 2)
    /\ args.hue = PyNone
    /\ error = "ValueError"

\* C8 as stated: wrap width 1 when E is 1 or 2, a 2-wide wrap when E > 2, the
\* smaller panel height exactly when E > 2.
C8_Original ==
    render.called =>
        /\ (EnvCount \in {1, 2} => render.col_wrap = 1)
        /\ (EnvCount > 2 => render.col_wrap = 2)
        /\ (render.height = 3 <=> EnvCount > 2)
        /\ render.height \in {3, 5}

\* C8, amended: wrap width 1 when E is at most 1, a 2-wide wrap when E is 2 or
\* more, the smaller panel height exactly when E > 2.
C8_Layout ==
    render.called =>
        /\ (EnvCount <= 1 => render.col_wrap = 1)
        /\ (EnvCount >= 2 => render.col_wrap = 2)
        /\ (render.height = 3 <=> EnvCount > 2)
        /\ render.height \in {3, 5}

\* Two environments: a 2-wide wrap at the larger height.
C8_Witness ==
    /\ render.called
    /\ EnvCount = 2
    /\ render.col_wrap = 2
    /\ render.height = 5

\* C10: with a seed list plot renders as in 'average' mode: aggregation across
\* seeds, no per-seed grouping, the whole table whatever the list holds; the
\* outcome is one that the same call with seed 'average' has.
C10_ListAsAverage ==
    (pc = "returned" /\ args.seed.isList) =>
        /\ [exc |-> error, render |-> render, saved |-> saved, shown |-> shown]
              \in plot(df, args.hue, args.style, SeedStr("average"), args.bin_size,
                       args.save_path, ~args.no_show)
        /\ render.called =>
              /\ render.data = df
              /\ render.units = PyNone
              /\ render.estimator = "mean"

\* A list naming seed 1 only, on a table that also has rows of seed 2.
C10_Witness ==
    /\ pc = "returned"
    /\ args.seed = SeedList(<<1>>)
    /\ render.called
    /\ \E i \in DOMAIN df.values : At(df, i, "seed") = IntCell(2)
    /\ Len(render.data.values) = Len(df.values)

-----------------------------------------------------------------------------
(* Properties of the script, under Spec *)

Present == {n \in DOMAIN runs : runs[n].kind = "dir"}

\* The log of run n can be read and binned.
Binnable(n) ==
    runs[n].loss.st = "ok" /\ (runs[n].loss.rows # <<>> \/ einsumObjects)

\* Run n has both files and parses.
Complete(n) == Binnable(n) /\ runs[n].params.st = "ok"

\* Run n lacks a file, and parses as far as the missing file.
LacksFile(n) ==
    runs[n].loss.st = "absent" \/ (Binnable(n) /\ runs[n].params.st = "absent")

\* The rows run n has after binning by B: floor(N/B), none when a file is missing.
BinnedRows(n, B) == IF Complete(n) THEN Len(runs[n].loss.rows) \div B ELSE 0

RECURSIVE TotalRows(_, _)
TotalRows(S, B) ==
    IF S = {} THEN 0
    ELSE LET n == CHOOSE m \in S : TRUE
         IN BinnedRows(n, B) + TotalRows(S \ {n}, B)

\* The columns of run n's table: those of its log and its metadata keys.
RunCols(n) ==
    Range(runs[n].loss.cols) \cup {runs[n].params.items[i].k : i \in DOMAIN runs[n].params.items}

\* The script is about to run its --create-csv step.
Collating == pc = "create_csv" /\ args.create_csv

\* C2 as stated: when some runs lack loss.csv or params.json and the others are
\* complete, collate_results returns, and its table has the binned rows of the
\* complete runs and no others.
C2_Claim ==
    [][(/\ Collating
        /\ ~combined.exists
        /\ \A n \in Present : Complete(n) \/ LacksFile(n)
        /\ \E n \in Present : LacksFile(n))
          => (pc' = "makedirs" /\ Len(df'.values) = TotalRows(Present, args.bin_size))]_vars

\* C3 as stated: every --create-csv invocation succeeds and leaves combined.csv
\* equal to the concatenation of the binned tables of the run directories, an
\* earlier combined.csv in the results directory or not.
C3_Claim ==
    [][(/\ Collating
        /\ \A n \in Present : Complete(n) \/ LacksFile(n)
        /\ \E n \in Present : Complete(n))
          => (/\ pc' = "makedirs"
              /\ combined' \in {to_csv(collate_results(l, args.bin_size).val) :
                                   l \in glob(runs, NoFile)})]_vars

\* C5 as stated: for every save path, a bare file name included, the parent
\* directories are created without error, the plot step then runs, and a plot step
\* that completes has written the image at the save path.
C5_Claim ==
    [][/\ (pc = "makedirs" /\ ~args.no_plot /\ ~args.save_path.isNone)
            => (/\ pc' = "load"
                /\ split_head(args.save_path) # <<>>
                      => split_head(args.save_path) \in dirs')
       /\ (pc = "load" /\ pc' = "done" /\ ~args.save_path.isNone)
            => saved' = args.save_path]_vars

\* C6 as stated: for K >= 0 runs that all parse, collate_results returns a table
\* whose row count is the sum of the runs' binned row counts and whose columns
\* are the union of the runs' columns.
C6_Claim ==
    [][(/\ Collating
        /\ ~combined.exists
        /\ \A n \in Present : Complete(n))
          => (/\ pc' = "makedirs"
              /\ Len(df'.values) = TotalRows(Present, args.bin_size)
              /\ Range(df'.cols) = UNION {RunCols(n) : n \in Present})]_vars

\* What an invocation has done outside the process: the files and the display.
Effects == <<combined, dirs, saved, shown, render.called>>

\* C9: a --create-csv invocation whose collation raises leaves combined.csv as
\* it was, and its plot step does not run: the step that raises changes no file
\* and shows nothing, and the only step after it is the end of the process.
C9_CollateFailureFrame ==
    [][/\ (pc' = "raised" /\ raisedIn' = "collate")
            => (/\ Collating
                /\ Effects' = Effects
                /\ saved' = NonePath /\ ~shown' /\ ~render'.called)
       /\ (pc = "raised" /\ raisedIn = "collate")
            => (/\ pc' = "start"
                /\ combined' = combined /\ dirs' = dirs
                /\ saved' = NonePath /\ ~shown' /\ ~render'.called)]_vars

\* Collation raised in an invocation that was to plot and save under figs/,
\* with a combined.csv of an earlier invocation in place.
C9_Witness ==
    /\ pc = "raised"
    /\ raisedIn = "collate"
    /\ args.create_csv
    /\ ~args.no_plot
    /\ args.save_path = FigsPath
    /\ combined.exists
    /\ Len(combined.rows) > 0
    /\ <<"figs">> \notin dirs

=============================================================================
